---- MODULE Spec2Model ----
(***************************************************************************)
(* Model of green-ai-agent/backend.                                        *)
(*                                                                         *)
(*   agent_logic.py      keyword scorer, softmax, the two tiers, the       *)
(*                       escalation policy and the orchestrator            *)
(*   sklearn_wrapper.py  load_model / classify over module globals         *)
(*   fasttext_wrapper.py load_model / classify over module globals         *)
(*   models.py           the process-wide _model_cache                     *)
(*                                                                         *)
(* Numbers.  Raw scores are multiples of 0.5 and are kept in half units    *)
(* (score 1.5 is 3).  math.exp is the table ExpTable, exp(k/2) in units of *)
(* 1e-4.  Probabilities and thresholds are fixed point with ProbDigits     *)
(* decimals (ProbScale is 1.0), finer than the 6 decimals all_predictions  *)
(* is rounded to.  CO2 is in milligrams.                                   *)
(***************************************************************************)
EXTENDS Integers, Sequences, FiniteSets, TLC

\* ------------------------------------------------------------------ bounds

\* longest email text, in tokens
MaxLen == 2

\* threads calling into models.py
NumThreads == 2

\* decimals a probability is computed to
ProbDigits == 7

\* ------------------------------------------------------------------- state

VARIABLES
    \* agent_logic.py: one request through process_email / classify_email
    email_data,         \* the request: text, preferences, user_id
    pc,                 \* position inside process_email / classify_email
    light_res,          \* classify_email's light_res
    heavy_res,          \* classify_email's heavy_res
    attempted,          \* classify_email's attempted
    raw_scores,         \* _classify_with_model's raw_scores, of its latest call
    evaluated,          \* the tiers evaluated for this request, in order
    returned,           \* what classify_email returned
    result,             \* what process_email returned
    \* sklearn_wrapper.py, fasttext_wrapper.py
    sk_MODEL,           \* sklearn_wrapper.MODEL
    sk_MODEL_PATH,      \* sklearn_wrapper.MODEL_PATH
    ft_MODEL,           \* fasttext_wrapper.MODEL
    ft_MODEL_PATH,      \* fasttext_wrapper.MODEL_PATH
    HAS_PY_FASTTEXT,    \* whether `import fasttext` worked
    fasttext_cli,       \* whether shutil.which('fasttext') finds the CLI
    call,               \* the latest wrapper call and how it ended
    loaded,             \* per wrapper: some load_model call has returned
    \* models.py
    model_cache,        \* _model_cache
    model_file,         \* what lies at SKLEARN_MODEL_PATH
    tpc,                \* per thread: position inside get_ / save_sklearn_model
    targ,               \* per thread: the model save_sklearn_model was given
    tret                \* per thread: what its latest call returned

coreVars ==
    <<email_data, pc, light_res, heavy_res, attempted, raw_scores, evaluated, returned, result>>

wrapperVars ==
    <<sk_MODEL, sk_MODEL_PATH, ft_MODEL, ft_MODEL_PATH, HAS_PY_FASTTEXT, fasttext_cli, call, loaded>>

cacheVars == <<model_cache, model_file, tpc, targ, tret>>

vars == <<coreVars, wrapperVars, cacheVars>>

\* ------------------------------------------------------- agent_logic.py data

\* a result variable that holds no result yet
NoResult == [model_used |-> "<none>"]

CATEGORIES == <<"work", "spam", "promotions", "personal", "support", "newsletter">>

CategorySet == {CATEGORIES[i] : i \in DOMAIN CATEGORIES}

\* the keyword bank; "personal" has no entry
KEYWORDS ==
    [spam       |-> {"congratulations", "winner", "$$$", "click here", "urgent", "claim"},
     work       |-> {"meeting", "report", "project", "deadline", "team", "schedule"},
     promotions |-> {"offer", "sale", "discount", "% off", "limited time", "deal"},
     support    |-> {"help", "support", "issue", "problem", "password", "reset", "account"},
     newsletter |-> {"newsletter", "weekly", "news", "update", "digest"}]

\* A text is a sequence of phrases, joined by blanks.  The phrases an email
\* is built from here; one of them carries upper-case letters.
Vocabulary ==
    {"Project DEADLINE report", "team meeting schedule", "team meeting",
     "urgent claim", "newsletter", "hello"}

\* str.lower() on one phrase
LowerToken(tok) ==
    IF tok = "Project DEADLINE report" THEN "project deadline report" ELSE tok

\* str.lower() on a text
Lower(text) == [i \in DOMAIN text |-> LowerToken(text[i])]

\* the keywords of the bank that are substrings of a phrase, compared
\* case-sensitively: "newsletter" contains "news" as well as itself
SubstringsOf(tok) ==
    CASE tok = "project deadline report" -> {"project", "deadline", "report"}
      [] tok = "team meeting schedule"   -> {"team", "meeting", "schedule"}
      [] tok = "team meeting"            -> {"team", "meeting"}
      [] tok = "urgent claim"            -> {"urgent", "claim"}
      [] tok = "newsletter"              -> {"newsletter", "news"}
      [] OTHER                           -> {}

\* Python's `w in t`
In(w, t) == \E i \in DOMAIN t : w \in SubstringsOf(t[i])

\* ---------------------------------------------------------------- scorer

\* hit = sum(1 for w in words if w in t)
Hits(words, t) == Cardinality({w \in words : In(w, t)})

\* hit if hit <= 1 else 1.0 + 0.5 * (hit - 1), in half units
Boost(hit) == IF hit <= 1 THEN 2 * hit ELSE 2 + (hit - 1)

KeywordScores(text) ==
    LET t == Lower(text)
    IN  [c \in CategorySet |->
            IF c \in DOMAIN KEYWORDS THEN Boost(Hits(KEYWORDS[c], t)) ELSE 0]

\* the scorer without the residual rule for "personal"
ScoreWithoutResidual(text) == KeywordScores(text)

\* the scorer with a residual of 0.5 for "personal"
ScoreSmallResidual(text) ==
    LET scores == KeywordScores(text)
    IN  IF \A k \in CategorySet : k # "personal" => scores[k] = 0
        THEN [scores EXCEPT !["personal"] = 1]
        ELSE scores

score_text_by_category(text) ==
    LET scores == KeywordScores(text)
    IN  IF \A k \in CategorySet : k # "personal" => scores[k] = 0
        THEN [scores EXCEPT !["personal"] = 2]
        ELSE scores

\* ---------------------------------------------------------------- softmax

RECURSIVE Pow10(_)
Pow10(n) == IF n = 0 THEN 1 ELSE 10 * Pow10(n - 1)

ProbScale == Pow10(ProbDigits)

\* math.exp(k / 2) in units of 1e-4, k = 0 .. 8
ExpTable == <<10000, 16487, 27183, 44817, 73891, 121825, 200855, 331155, 545982>>

Exp(halfUnits) == ExpTable[halfUnits + 1]

RECURSIVE SumOver(_, _)
SumOver(f, S) ==
    IF S = {} THEN 0
    ELSE LET x == CHOOSE y \in S : TRUE IN f[x] + SumOver(f, S \ {x})

\* n / d for 0 <= n < d, truncated to `digits` decimals, by long division
RECURSIVE Frac(_, _, _)
Frac(n, d, digits) ==
    IF digits = 0 THEN 0
    ELSE ((n * 10) \div d) * Pow10(digits - 1) + Frac((n * 10) % d, d, digits - 1)

\* temperature is 1.0 at the only call site
softmax(d) ==
    IF \A k \in DOMAIN d : d[k] = 0
    THEN [k \in DOMAIN d |-> Frac(1, Cardinality(DOMAIN d), ProbDigits)]
    ELSE LET exps == [k \in DOMAIN d |-> Exp(d[k])]
             Z    == SumOver(exps, DOMAIN d)
         IN  [k \in DOMAIN d |-> Frac(exps[k], Z, ProbDigits)]

\* ---------------------------------------------------------- tier evaluator

\* max(probs.items(), key=...)[0]: the first maximal entry in dict order,
\* which is the order of CATEGORIES
ArgMax(probs) ==
    LET i == CHOOSE j \in DOMAIN CATEGORIES :
                 /\ \A m \in DOMAIN CATEGORIES : probs[CATEGORIES[m]] <= probs[CATEGORIES[j]]
                 /\ \A m \in 1 .. (j - 1) : probs[CATEGORIES[m]] < probs[CATEGORIES[j]]
    IN  CATEGORIES[i]

\* insert c behind every entry whose key is >= its own
InsertDesc(out, c, key) ==
    LET n == Cardinality({i \in DOMAIN out : key[out[i]] >= key[c]})
    IN  SubSeq(out, 1, n) \o <<c>> \o SubSeq(out, n + 1, Len(out))

\* insert c before every entry whose key is <= its own
InsertDescFront(out, c, key) ==
    LET n == Cardinality({i \in DOMAIN out : key[out[i]] > key[c]})
    IN  SubSeq(out, 1, n) \o <<c>> \o SubSeq(out, n + 1, Len(out))

\* an ascending stable sort read backwards: descending, ties reversed
RECURSIVE SortedAscReversed(_, _)
SortedAscReversed(seq, key) ==
    IF seq = <<>> THEN <<>>
    ELSE InsertDescFront(SortedAscReversed(SubSeq(seq, 1, Len(seq) - 1), key), seq[Len(seq)], key)

\* sorted(seq, key=..., reverse=True): descending and stable
RECURSIVE SortedDesc(_, _)
SortedDesc(seq, key) ==
    IF seq = <<>> THEN <<>>
    ELSE InsertDesc(SortedDesc(SubSeq(seq, 1, Len(seq) - 1), key), seq[Len(seq)], key)

\* round(p, 6): to units of 1e-6
Round6(p) ==
    LET unit == Pow10(ProbDigits - 6)
    IN  (p + unit \div 2) \div unit

AllPredictions(probs) ==
    LET order == SortedDesc(CATEGORIES, probs)
    IN  [i \in DOMAIN order |-> [category |-> order[i], confidence |-> Round6(probs[order[i]])]]

\* a decimal literal with two places, as a probability: Percent(85) is 0.85
Percent(n) == n * (ProbScale \div 100)

ConfidenceLevel(confidence) ==
    IF confidence >= Percent(85) THEN "high"
    ELSE IF confidence >= Percent(70) THEN "medium" ELSE "low"

\* a tier evaluator whose heavy tier adds 0.10 to the confidence, capped
\* at 0.98
ClassifyHeavyMoreConfident(text, mode) ==
    LET scores     == score_text_by_category(text)
        probs      == softmax(scores)
        category   == ArgMax(probs)
        gained     == probs[category] + Percent(10)
        confidence == IF mode = "light" THEN probs[category]
                      ELSE IF gained > Percent(98) THEN Percent(98) ELSE gained
    IN  [predicted_category |-> category,
         confidence         |-> confidence,
         all_predictions    |-> AllPredictions(probs),
         model_used         |-> IF mode = "light" THEN "agent_light" ELSE "agent_heavy",
         escalated          |-> (mode = "heavy"),
         co2_mg             |-> IF mode = "light" THEN 2 ELSE 10,
         confidence_level   |-> ConfidenceLevel(confidence),
         should_review      |-> confidence < Percent(70),
         email_text         |-> text]

\* the wall-clock fields (processing time, timestamp) are left out
classify_with_model(text, mode) ==
    LET scores     == score_text_by_category(text)
        probs      == softmax(scores)
        category   == ArgMax(probs)
        confidence == probs[category]
    IN  [predicted_category |-> category,
         confidence         |-> confidence,
         all_predictions    |-> AllPredictions(probs),
         model_used         |-> IF mode = "light" THEN "agent_light" ELSE "agent_heavy",
         escalated          |-> (mode = "heavy"),
         co2_mg             |-> IF mode = "light" THEN 2 ELSE 10,
         confidence_level   |-> ConfidenceLevel(confidence),
         should_review      |-> confidence < Percent(70),
         email_text         |-> text]

\* ------------------------------------------------------- escalation policy

\* heavy must beat light by this much: 0.02
EPSILON_CONF_GAIN == Percent(2)

\* backend.config is not among the sources; the value is the one in the
\* copy of config.py kept in config_prod.py
DEFAULT_CONFIDENCE_THRESHOLD == Percent(85)

RECURSIVE SeqsUpTo(_, _)
SeqsUpTo(S, n) ==
    IF n = 0 THEN {<<>>}
    ELSE LET shorter == SeqsUpTo(S, n - 1)
         IN  shorter \cup {Append(t, x) : t \in shorter, x \in S}

Texts == SeqsUpTo(Vocabulary, MaxLen)

\* priority values a caller sends; "turbo" is not one the policy knows
Priorities == {"balanced", "accuracy", "energy", "turbo"}

\* confidence_threshold values a caller sends: round ones, and the ones at
\* and next to the confidence of a text with one keyword hit or none
Thresholds ==
    LET c == classify_with_model(<<>>, "light").confidence
    IN  {0, c, c + 1, Percent(50), ProbScale}

\* a dict is a function on the keys it holds
EmptyDict == [k \in {} |-> k]

PreferenceDicts ==
    {EmptyDict}
        \cup {[priority |-> p] : p \in Priorities}
        \cup {[confidence_threshold |-> t] : t \in Thresholds}
        \cup {[priority |-> p, confidence_threshold |-> t] : p \in Priorities, t \in Thresholds}

Requests ==
    {[text |-> t, preferences |-> p] : t \in Texts, p \in PreferenceDicts}
        \cup {[text |-> t, preferences |-> p, user_id |-> "u1"] : t \in Texts, p \in PreferenceDicts}

\* dict.get(key, default)
Get(d, key, default) == IF key \in DOMAIN d THEN d[key] ELSE default

priority == Get(email_data.preferences, "priority", "balanced")

threshold == Get(email_data.preferences, "confidence_threshold", DEFAULT_CONFIDENCE_THRESHOLD)

\* the trigger with <= where the code has <
MustEscalateInclusive(light, prio, thr) ==
    \/ light.confidence <= thr
    \/ prio = "accuracy"
    \/ (prio = "energy" /\ light.confidence < Percent(75))

must_escalate(light, prio, thr) ==
    \/ light.confidence < thr
    \/ prio = "accuracy"
    \/ (prio = "energy" /\ light.confidence < Percent(75))

\* the selection without the gain: heavy wins when it is no worse
HeavyWinsNoGain(light, heavy) == heavy.confidence >= light.confidence

\* heavy_res["confidence"] >= light_res["confidence"] + EPSILON_CONF_GAIN
HeavyWins(light, heavy) == heavy.confidence >= light.confidence + EPSILON_CONF_GAIN

\* the result chosen so far
chosen ==
    IF attempted /\ HeavyWins(light_res, heavy_res) THEN heavy_res ELSE light_res

\* the tagging with escalated set from the attempt flag
TagFromAttempt(res, att) ==
    [k \in DOMAIN res \cup {"escalation_attempted"} |->
        IF k \in {"escalation_attempted", "escalated"} THEN att ELSE res[k]]

\* chosen["escalation_attempted"] = attempted; chosen["escalated"] = ...
Tag(res, att) ==
    [k \in DOMAIN res \cup {"escalation_attempted"} |->
        IF k = "escalation_attempted" THEN att
        ELSE IF k = "escalated" THEN (res.model_used = "agent_heavy")
        ELSE res[k]]

\* result["user_id"] = email_data.get("user_id", "anonymous")
AttachUser(res, req) ==
    [k \in DOMAIN res \cup {"user_id"} |->
        IF k = "user_id" THEN Get(req, "user_id", "anonymous") ELSE res[k]]

\* light_res = self._classify_with_model(text, mode="light")
LightTier ==
    /\ pc = "start"
    /\ light_res' = classify_with_model(email_data.text, "light")
    /\ raw_scores' = score_text_by_category(email_data.text)
    /\ evaluated' = Append(evaluated, "light")
    /\ pc' = "policy"
    /\ UNCHANGED <<email_data, heavy_res, attempted, returned, result>>
    /\ UNCHANGED <<wrapperVars, cacheVars>>

\* if must_escalate: attempted = True; heavy_res = ...
HeavyTier ==
    /\ pc = "policy"
    /\ must_escalate(light_res, priority, threshold)
    /\ attempted' = TRUE
    /\ heavy_res' = classify_with_model(email_data.text, "heavy")
    /\ raw_scores' = score_text_by_category(email_data.text)
    /\ evaluated' = Append(evaluated, "heavy")
    /\ pc' = "chosen"
    /\ UNCHANGED <<email_data, light_res, returned, result>>
    /\ UNCHANGED <<wrapperVars, cacheVars>>

\* must_escalate is false: the light result stays chosen
KeepLight ==
    /\ pc = "policy"
    /\ ~must_escalate(light_res, priority, threshold)
    /\ pc' = "chosen"
    /\ UNCHANGED <<email_data, light_res, heavy_res, attempted, raw_scores, evaluated, returned, result>>
    /\ UNCHANGED <<wrapperVars, cacheVars>>

\* the flags are attached and classify_email returns
Return ==
    /\ pc = "chosen"
    /\ returned' = Tag(chosen, attempted)
    /\ pc' = "returned"
    /\ UNCHANGED <<email_data, light_res, heavy_res, attempted, raw_scores, evaluated, result>>
    /\ UNCHANGED <<wrapperVars, cacheVars>>

\* process_email attaches the user id and returns
ProcessEmailReturn ==
    /\ pc = "returned"
    /\ result' = AttachUser(returned, email_data)
    /\ pc' = "done"
    /\ UNCHANGED <<email_data, light_res, heavy_res, attempted, raw_scores, evaluated, returned>>
    /\ UNCHANGED <<wrapperVars, cacheVars>>

CoreNext == LightTier \/ HeavyTier \/ KeepLight \/ Return \/ ProcessEmailReturn

\* ------------------------------------- sklearn_wrapper.py, fasttext_wrapper.py

\* Python's None in a global; a loaded model is named by the path it came from
None == "None"

\* the model paths callers pass
Paths == {"", "missing.bin", "corrupt.bin", "models/a.bin", "b.bin"}

\* what lies at a path; the files do not change while the process runs
FileAt(path) ==
    CASE path = "corrupt.bin"  -> "corrupt"
      [] path = "models/a.bin" -> "valid"
      [] path = "b.bin"        -> "valid"
      [] OTHER                 -> "missing"

\* os.path.basename
Basename(path) == IF path = "models/a.bin" THEN "a.bin" ELSE path

WrapperTexts == {"", "hello"}

\* how a call ended: with a value, or with an exception, its message and
\* the exception the message quotes
Returned(value) ==
    [kind |-> "return", error |-> "-", message |-> "-", cause |-> "-", value |-> value]

Raised(error, message, cause) ==
    [kind |-> "raise", error |-> error, message |-> message, cause |-> cause, value |-> "-"]

\* sklearn_wrapper.load_model: the globals after the call, and its outcome
sk_load_model(MODEL, MODEL_PATH, path) ==
    IF FileAt(path) = "missing"
    THEN [MODEL |-> MODEL, MODEL_PATH |-> MODEL_PATH,
          outcome |-> Raised("FileNotFoundError", "Model file not found", "-")]
    ELSE IF FileAt(path) = "corrupt"
    THEN [MODEL |-> MODEL, MODEL_PATH |-> MODEL_PATH,
          outcome |-> Raised("UnpicklingError", "joblib.load", "-")]
    ELSE [MODEL |-> path, MODEL_PATH |-> path, outcome |-> Returned(path)]

\* sklearn_wrapper.classify without the MODEL is None test
sk_classify_unguarded(MODEL, MODEL_PATH, text, predictFails) ==
    IF MODEL = None THEN Raised("AttributeError", "named_steps", "-")
    ELSE IF predictFails THEN Raised("ValueError", "predict_proba", "-")
    ELSE Returned([model_used |-> <<"sklearn", Basename(MODEL_PATH)>>, email_text |-> text])

\* sklearn_wrapper.classify; predictFails: the pipeline's own calls raise
sk_classify(MODEL, MODEL_PATH, text, predictFails) ==
    IF MODEL = None THEN Raised("RuntimeError", "Model not loaded", "-")
    ELSE IF predictFails THEN Raised("ValueError", "predict_proba", "-")
    ELSE Returned([model_used |-> <<"sklearn", Basename(MODEL_PATH)>>, email_text |-> text])

\* fasttext_wrapper.load_model
ft_load_model(MODEL, MODEL_PATH, path, hasPy, cli) ==
    IF hasPy
    THEN IF FileAt(path) = "valid"
         THEN [MODEL |-> path, MODEL_PATH |-> path, outcome |-> Returned(path)]
         ELSE [MODEL |-> MODEL, MODEL_PATH |-> path,
               outcome |-> Raised("ValueError", "fasttext.load_model", "-")]
    ELSE IF ~cli
         THEN [MODEL |-> MODEL, MODEL_PATH |-> path,
               outcome |-> Raised("RuntimeError", "fasttext CLI not found", "-")]
    ELSE IF path = ""
         THEN [MODEL |-> MODEL, MODEL_PATH |-> path,
               outcome |-> Raised("RuntimeError", "No model path provided", "-")]
    ELSE [MODEL |-> None, MODEL_PATH |-> path, outcome |-> Returned(None)]

\* _predict_py / _predict_cli: "ok", or the exception raised
ft_predict(MODEL, MODEL_PATH, predictFails, hasPy, cli) ==
    IF hasPy /\ MODEL # None
    THEN IF predictFails THEN "ValueError" ELSE "ok"
    ELSE IF ~cli THEN "FileNotFoundError"
    ELSE IF MODEL_PATH = None THEN "TypeError"
    ELSE IF FileAt(MODEL_PATH) # "valid" \/ predictFails THEN "CalledProcessError"
    ELSE "ok"

\* fasttext_wrapper.classify
ft_classify(MODEL, MODEL_PATH, text, predictFails, hasPy, cli) ==
    IF MODEL_PATH = None /\ MODEL = None THEN Raised("RuntimeError", "Model not loaded", "-")
    ELSE LET preds == ft_predict(MODEL, MODEL_PATH, predictFails, hasPy, cli)
         IN  IF preds # "ok"
             THEN Raised("RuntimeError", "FastText prediction failed", preds)
             ELSE Returned([model_used |-> <<"fasttext", MODEL_PATH>>, email_text |-> text])

NoCall == [module |-> "-", fn |-> "-", arg |-> "-", predictFails |-> FALSE, outcome |-> Returned("-")]

SkLoadModel(path) ==
    LET r == sk_load_model(sk_MODEL, sk_MODEL_PATH, path)
    IN  /\ sk_MODEL' = r.MODEL
        /\ sk_MODEL_PATH' = r.MODEL_PATH
        /\ call' = [module |-> "sklearn", fn |-> "load_model", arg |-> path,
                    predictFails |-> FALSE, outcome |-> r.outcome]
        /\ loaded' = [loaded EXCEPT !["sklearn"] = @ \/ r.outcome.kind = "return"]
        /\ UNCHANGED <<ft_MODEL, ft_MODEL_PATH, HAS_PY_FASTTEXT, fasttext_cli>>
        /\ UNCHANGED <<coreVars, cacheVars>>

SkClassify(text, predictFails) ==
    /\ call' = [module |-> "sklearn", fn |-> "classify", arg |-> text,
                predictFails |-> predictFails,
                outcome |-> sk_classify(sk_MODEL, sk_MODEL_PATH, text, predictFails)]
    /\ UNCHANGED <<sk_MODEL, sk_MODEL_PATH, ft_MODEL, ft_MODEL_PATH, HAS_PY_FASTTEXT,
                   fasttext_cli, loaded>>
    /\ UNCHANGED <<coreVars, cacheVars>>

FtLoadModel(path) ==
    LET r == ft_load_model(ft_MODEL, ft_MODEL_PATH, path, HAS_PY_FASTTEXT, fasttext_cli)
    IN  /\ ft_MODEL' = r.MODEL
        /\ ft_MODEL_PATH' = r.MODEL_PATH
        /\ call' = [module |-> "fasttext", fn |-> "load_model", arg |-> path,
                    predictFails |-> FALSE, outcome |-> r.outcome]
        /\ loaded' = [loaded EXCEPT !["fasttext"] = @ \/ r.outcome.kind = "return"]
        /\ UNCHANGED <<sk_MODEL, sk_MODEL_PATH, HAS_PY_FASTTEXT, fasttext_cli>>
        /\ UNCHANGED <<coreVars, cacheVars>>

FtClassify(text, predictFails) ==
    /\ call' = [module |-> "fasttext", fn |-> "classify", arg |-> text,
                predictFails |-> predictFails,
                outcome |-> ft_classify(ft_MODEL, ft_MODEL_PATH, text, predictFails,
                                        HAS_PY_FASTTEXT, fasttext_cli)]
    /\ UNCHANGED <<sk_MODEL, sk_MODEL_PATH, ft_MODEL, ft_MODEL_PATH, HAS_PY_FASTTEXT,
                   fasttext_cli, loaded>>
    /\ UNCHANGED <<coreVars, cacheVars>>

SkLoadModelCall == \E path \in Paths : SkLoadModel(path)

SkClassifyCall == \E text \in WrapperTexts, predictFails \in BOOLEAN : SkClassify(text, predictFails)

FtLoadModelCall == \E path \in Paths : FtLoadModel(path)

FtClassifyCall == \E text \in WrapperTexts, predictFails \in BOOLEAN : FtClassify(text, predictFails)

WrapperNext == SkLoadModelCall \/ SkClassifyCall \/ FtLoadModelCall \/ FtClassifyCall

\* ---------------------------------------------------------------- models.py

Threads == 1 .. NumThreads

\* the models callers save
Models == {"m1", "m2"}

\* the test that never finds the slot filled: every call loads
MissAlways(cache) == TRUE

\* 'sklearn' not in _model_cache
Miss(cache) == "sklearn" \notin DOMAIN cache

\* get_sklearn_model is called: if 'sklearn' not in _model_cache
GetCheck(t) ==
    /\ tpc[t] = "idle"
    /\ tpc' = [tpc EXCEPT ![t] = IF Miss(model_cache) THEN "get_exists" ELSE "get_return"]
    /\ UNCHANGED <<model_cache, model_file, targ, tret>>
    /\ UNCHANGED <<coreVars, wrapperVars>>

\* if model_path.exists(): ... else: return None
GetExists(t) ==
    /\ tpc[t] = "get_exists"
    /\ IF model_file = "missing"
       THEN /\ tpc' = [tpc EXCEPT ![t] = "idle"]
            /\ tret' = [tret EXCEPT ![t] = None]
       ELSE /\ tpc' = [tpc EXCEPT ![t] = "get_load"]
            /\ UNCHANGED tret
    /\ UNCHANGED <<model_cache, model_file, targ>>
    /\ UNCHANGED <<coreVars, wrapperVars>>

\* _model_cache['sklearn'] = joblib.load(model_path), or except: return None
GetLoad(t) ==
    /\ tpc[t] = "get_load"
    /\ IF model_file \in Models
       THEN /\ model_cache' = [sklearn |-> model_file]
            /\ tpc' = [tpc EXCEPT ![t] = "get_return"]
            /\ UNCHANGED tret
       ELSE /\ tpc' = [tpc EXCEPT ![t] = "idle"]
            /\ tret' = [tret EXCEPT ![t] = None]
            /\ UNCHANGED model_cache
    /\ UNCHANGED <<model_file, targ>>
    /\ UNCHANGED <<coreVars, wrapperVars>>

\* return _model_cache['sklearn']
GetReturn(t) ==
    /\ tpc[t] = "get_return"
    /\ tret' = [tret EXCEPT ![t] = model_cache["sklearn"]]
    /\ tpc' = [tpc EXCEPT ![t] = "idle"]
    /\ UNCHANGED <<model_cache, model_file, targ>>
    /\ UNCHANGED <<coreVars, wrapperVars>>

\* save_sklearn_model(model): mkdir and joblib.dump; on an exception the
\* file is as it was or half written, and the call returns False
SaveDump(t, model, ok) ==
    /\ tpc[t] = "idle"
    /\ IF ok
       THEN /\ model_file' = model
            /\ targ' = [targ EXCEPT ![t] = model]
            /\ tpc' = [tpc EXCEPT ![t] = "save_store"]
            /\ UNCHANGED tret
       ELSE /\ model_file' \in {model_file, "corrupt"}
            /\ tret' = [tret EXCEPT ![t] = "False"]
            /\ UNCHANGED <<tpc, targ>>
    /\ UNCHANGED model_cache
    /\ UNCHANGED <<coreVars, wrapperVars>>

\* _model_cache['sklearn'] = model; return True
SaveStore(t) ==
    /\ tpc[t] = "save_store"
    /\ model_cache' = [sklearn |-> targ[t]]
    /\ tret' = [tret EXCEPT ![t] = "True"]
    /\ tpc' = [tpc EXCEPT ![t] = "idle"]
    /\ UNCHANGED <<model_file, targ>>
    /\ UNCHANGED <<coreVars, wrapperVars>>

GetCheckStep == \E t \in Threads : GetCheck(t)

GetExistsStep == \E t \in Threads : GetExists(t)

GetLoadStep == \E t \in Threads : GetLoad(t)

GetReturnStep == \E t \in Threads : GetReturn(t)

SaveDumpStep == \E t \in Threads, model \in Models, ok \in BOOLEAN : SaveDump(t, model, ok)

SaveStoreStep == \E t \in Threads : SaveStore(t)

CacheNext ==
    \/ GetCheckStep
    \/ GetExistsStep
    \/ GetLoadStep
    \/ GetReturnStep
    \/ SaveDumpStep
    \/ SaveStoreStep

\* ---------------------------------------------------------- specifications

\* one request through the orchestrator: the request is any of Requests,
\* the backends stay as they are at import
Init ==
    /\ email_data \in Requests
    /\ pc = "start"
    /\ light_res = NoResult
    /\ heavy_res = NoResult
    /\ attempted = FALSE
    /\ raw_scores = [c \in CategorySet |-> 0]
    /\ evaluated = <<>>
    /\ returned = NoResult
    /\ result = NoResult
    /\ sk_MODEL = None
    /\ sk_MODEL_PATH = None
    /\ ft_MODEL = None
    /\ ft_MODEL_PATH = None
    /\ HAS_PY_FASTTEXT = TRUE
    /\ fasttext_cli = TRUE
    /\ call = NoCall
    /\ loaded = [m \in {"sklearn", "fasttext"} |-> FALSE]
    /\ model_cache = EmptyDict
    /\ model_file = "missing"
    /\ tpc = [t \in Threads |-> "idle"]
    /\ targ = [t \in Threads |-> None]
    /\ tret = [t \in Threads |-> None]

Next == CoreNext

Spec == Init /\ [][Next]_vars

\* calls into the two wrapper modules, in any order; the globals are as at
\* import, the fasttext module and CLI are installed or not
WrappersInit ==
    /\ email_data = [text |-> <<>>, preferences |-> EmptyDict]
    /\ pc = "idle"
    /\ light_res = NoResult
    /\ heavy_res = NoResult
    /\ attempted = FALSE
    /\ raw_scores = [c \in CategorySet |-> 0]
    /\ evaluated = <<>>
    /\ returned = NoResult
    /\ result = NoResult
    /\ sk_MODEL = None
    /\ sk_MODEL_PATH = None
    /\ ft_MODEL = None
    /\ ft_MODEL_PATH = None
    /\ HAS_PY_FASTTEXT \in BOOLEAN
    /\ fasttext_cli \in BOOLEAN
    /\ call = NoCall
    /\ loaded = [m \in {"sklearn", "fasttext"} |-> FALSE]
    /\ model_cache = EmptyDict
    /\ model_file = "missing"
    /\ tpc = [t \in Threads |-> "idle"]
    /\ targ = [t \in Threads |-> None]
    /\ tret = [t \in Threads |-> None]

SpecWrappers == WrappersInit /\ [][WrapperNext]_vars

\* threads calling get_sklearn_model and save_sklearn_model; the cache is
\* empty as at import, the model file is there or not
CacheInit ==
    /\ email_data = [text |-> <<>>, preferences |-> EmptyDict]
    /\ pc = "idle"
    /\ light_res = NoResult
    /\ heavy_res = NoResult
    /\ attempted = FALSE
    /\ raw_scores = [c \in CategorySet |-> 0]
    /\ evaluated = <<>>
    /\ returned = NoResult
    /\ result = NoResult
    /\ sk_MODEL = None
    /\ sk_MODEL_PATH = None
    /\ ft_MODEL = None
    /\ ft_MODEL_PATH = None
    /\ HAS_PY_FASTTEXT = TRUE
    /\ fasttext_cli = TRUE
    /\ call = NoCall
    /\ loaded = [m \in {"sklearn", "fasttext"} |-> FALSE]
    /\ model_cache = EmptyDict
    /\ model_file \in {"missing", "corrupt"} \cup Models
    /\ tpc = [t \in Threads |-> "idle"]
    /\ targ = [t \in Threads |-> None]
    /\ tret = [t \in Threads |-> None]

SpecCache == CacheInit /\ [][CacheNext]_vars

\* ------------------------------------------------------------ properties

Finished == pc \in {"returned", "done"}

\* the latest answer handed to a caller
Answer == IF pc = "done" THEN result ELSE returned

\* the caller's preferences as sent, keys that are missing included
SentPriority ==
    IF "priority" \in DOMAIN email_data.preferences
    THEN email_data.preferences.priority ELSE "balanced"

SentThreshold ==
    IF "confidence_threshold" \in DOMAIN email_data.preferences
    THEN email_data.preferences.confidence_threshold ELSE DEFAULT_CONFIDENCE_THRESHOLD

\* the trigger as the specification words it; any priority other than
\* "accuracy" and "energy" adds nothing to the threshold test
Triggered ==
    \/ light_res.confidence < SentThreshold
    \/ SentPriority = "accuracy"
    \/ (SentPriority = "energy" /\ light_res.confidence < Percent(75))

\* C1: escalation_attempted is true exactly when light confidence < T
\* (strictly), or priority is "accuracy", or priority is "energy" with light
\* confidence < 0.75; the heavy tier is evaluated exactly then, and only
\* after the light tier.
C1_EscalationTrigger ==
    /\ evaluated \in {<<>>, <<"light">>, <<"light", "heavy">>}
    /\ Finished =>
        /\ Answer.escalation_attempted = Triggered
        /\ evaluated = IF Triggered THEN <<"light", "heavy">> ELSE <<"light">>

\* a light confidence exactly at the threshold, with a priority the policy
\* does not know: no escalation
C1_Witness ==
    /\ pc = "done"
    /\ SentPriority = "turbo"
    /\ "confidence_threshold" \in DOMAIN email_data.preferences
    /\ light_res.confidence = SentThreshold
    /\ ~result.escalation_attempted
    /\ evaluated = <<"light">>

\* C2: after an escalation the heavy result is final only if heavy
\* confidence >= light confidence + 0.02; otherwise the answer's model_used
\* is "agent_light" while escalation_attempted is true.
C2_GainRule ==
    (Finished /\ attempted) =>
        /\ Answer.model_used = "agent_heavy"
              => heavy_res.confidence >= light_res.confidence + Percent(2)
        /\ heavy_res.confidence < light_res.confidence + Percent(2)
              => (Answer.model_used = "agent_light" /\ Answer.escalation_attempted)

C2_Witness ==
    /\ pc = "done"
    /\ attempted
    /\ heavy_res.confidence < light_res.confidence + Percent(2)
    /\ result.model_used = "agent_light"
    /\ result.escalation_attempted

\* C3: every returned result has escalated = (model_used = "agent_heavy");
\* escalated implies escalation_attempted, and a result that was not
\* escalated to comes from the light tier.
C3_EscalatedFlag ==
    /\ pc \in {"returned", "done"} =>
        /\ returned.escalated = (returned.model_used = "agent_heavy")
        /\ returned.escalated => returned.escalation_attempted
        /\ ~returned.escalation_attempted => returned.model_used = "agent_light"
    /\ pc = "done" =>
        /\ result.escalated = (result.model_used = "agent_heavy")
        /\ result.escalated => result.escalation_attempted
        /\ ~result.escalation_attempted => result.model_used = "agent_light"

\* the heavy tier ran, with its provisional flag set, and was not chosen
C3_Witness ==
    /\ pc = "done"
    /\ heavy_res.escalated
    /\ result.escalation_attempted
    /\ ~result.escalated
    /\ result.model_used = "agent_light"

\* no keyword of the bank occurs in the lower-cased text
NoKeywordHit(text) ==
    \A c \in DOMAIN KEYWORDS : \A w \in KEYWORDS[c] : ~In(w, Lower(text))

\* C4: the scorer gives "personal" 1.0 exactly when every other category
\* scores 0, and 0 otherwise; a text without keyword hits is classified
\* "personal" by either tier.
C4_CatchAllScore ==
    pc # "start" =>
        /\ raw_scores["personal"] =
              IF \A c \in CategorySet \ {"personal"} : raw_scores[c] = 0 THEN 2 ELSE 0
        /\ NoKeywordHit(email_data.text) =>
              /\ light_res.predicted_category = "personal"
              /\ attempted => heavy_res.predicted_category = "personal"

\* both tiers ran on a text without keyword hits
C4_Witness ==
    /\ pc = "done"
    /\ attempted
    /\ email_data.text = <<"hello">>
    /\ raw_scores["personal"] = 2
    /\ heavy_res.predicted_category = "personal"

CategoryIndex(c) == CHOOSE i \in DOMAIN CATEGORIES : CATEGORIES[i] = c

RankedWell(res) ==
    LET ap == res.all_predictions
    IN  /\ Len(ap) = Len(CATEGORIES)
        /\ \A c \in CategorySet : Cardinality({i \in DOMAIN ap : ap[i].category = c}) = 1
        /\ \A i, j \in DOMAIN ap :
              i < j =>
                /\ ap[i].confidence >= ap[j].confidence
                /\ ap[i].confidence = ap[j].confidence
                      => CategoryIndex(ap[i].category) < CategoryIndex(ap[j].category)
        /\ ap[1].category = res.predicted_category

\* C5: all_predictions holds each category exactly once, in non-increasing
\* confidence with equal ones in the fixed category order, and starts with
\* predicted_category.
C5_RankedPredictions ==
    /\ pc # "start" => RankedWell(light_res)
    /\ attempted => RankedWell(heavy_res)

\* a ranking with ties below the top and one above it
C5_Witness ==
    /\ pc = "done"
    /\ attempted
    /\ heavy_res.predicted_category = "spam"
    /\ heavy_res.all_predictions[2].confidence = heavy_res.all_predictions[3].confidence
    /\ heavy_res.all_predictions[2].category = "work"

\* 1 / number of categories
Uniform == Frac(1, Len(CATEGORIES), ProbDigits)

\* exp(1) / (exp(1) + 5 exp(0)): softmax of one score of 1.0 among zeros
OneAmongZeros == Frac(Exp(2), Exp(2) + (Len(CATEGORIES) - 1) * Exp(0), ProbDigits)

\* C6 as written: for the empty text the category is "personal" and the
\* confidence is the uniform 1 / number of categories.
C6_EmptyTextUniform ==
    (pc # "start" /\ email_data.text = <<>>) =>
        /\ light_res.predicted_category = "personal"
        /\ light_res.confidence = Uniform

\* C6 amended: for the empty text the category is "personal" and the
\* confidence is the softmax of the scores (personal 1.0, all others 0),
\* e / (e + 5), about 0.352; the distribution is not uniform.
C6_EmptyTextSoftmax ==
    (pc # "start" /\ email_data.text = <<>>) =>
        /\ raw_scores = [c \in CategorySet |-> IF c = "personal" THEN 2 ELSE 0]
        /\ light_res.predicted_category = "personal"
        /\ light_res.confidence = OneAmongZeros
        /\ light_res.confidence > Uniform
        /\ \A i \in 2 .. Len(CATEGORIES) :
              light_res.all_predictions[i].confidence < light_res.all_predictions[1].confidence

C6_Witness ==
    /\ pc = "done"
    /\ email_data.text = <<>>
    /\ result.predicted_category = "personal"
    /\ result.confidence = OneAmongZeros

\* the latest call was classify on a wrapper none of whose load_model calls
\* has returned
ClassifyBeforeLoad == call.fn = "classify" /\ ~loaded[call.module]

\* C7: for each wrapper, a classify call made when no load_model call has
\* yet completed successfully, failed loads included, raises a RuntimeError
\* and returns no result.
C7_ClassifyBeforeLoadRaises ==
    ClassifyBeforeLoad =>
        /\ call.outcome.kind = "raise"
        /\ call.outcome.error = "RuntimeError"
        /\ call.outcome.value = "-"

\* classify on the fasttext wrapper after a load that failed
C7_Witness ==
    /\ ClassifyBeforeLoad
    /\ call.module = "fasttext"
    /\ ft_MODEL_PATH # None
    /\ call.outcome.error = "RuntimeError"

\* C8: after a load attempt that fails, with no load before it, the
\* wrapper's MODEL and MODEL_PATH are empty, as if no load had been tried.
C8_FailedLoadLeavesSlotEmpty ==
    (call.fn = "load_model" /\ call.outcome.kind = "raise" /\ ~loaded[call.module]) =>
        /\ call.module = "sklearn" => (sk_MODEL = None /\ sk_MODEL_PATH = None)
        /\ call.module = "fasttext" => (ft_MODEL = None /\ ft_MODEL_PATH = None)

\* C9: at most one load of the sklearn artifact is in flight at any time.
C9_AtMostOneLoadInFlight == Cardinality({t \in Threads : tpc[t] = "get_load"}) <= 1

\* C10: when the prediction fails during classify, after a load that
\* succeeded, classify raises a RuntimeError "prediction failed" that
\* quotes the underlying exception, and returns no result.
C10_PredictionFailureWrapped ==
    (call.fn = "classify" /\ call.predictFails /\ loaded[call.module]) =>
        /\ call.outcome.kind = "raise"
        /\ call.outcome.error = "RuntimeError"
        /\ call.outcome.cause # "-"
        /\ call.outcome.value = "-"

\* C11: for each wrapper, load_model(path) raises and yields no handle
\* whenever nothing loadable lies at the path (no file, or a file that
\* cannot be deserialized), whichever prediction strategy is selected.
C11_LoadFailsOnBadPath ==
    (call.fn = "load_model" /\ FileAt(call.arg) # "valid") =>
        /\ call.outcome.kind = "raise"
        /\ call.outcome.value = "-"

\* the 'sklearn' slot holds a model
Populated == "sklearn" \in DOMAIN model_cache

\* thread t enters get_sklearn_model in this step
GetBegins(t) == tpc[t] = "idle" /\ tpc'[t] \in {"get_exists", "get_load", "get_return"}

\* thread t leaves get_sklearn_model with the slot's value in this step
GetEnds(t) == tpc[t] = "get_return" /\ tpc'[t] = "idle"

\* thread t leaves save_sklearn_model with False in this step: the only
\* step in which no thread changes its position
SaveFails(t) == tpc[t] = "idle" /\ tpc' = tpc /\ tret'[t] = "False"

\* C12: once the 'sklearn' slot is populated it stays populated; a
\* get_sklearn_model call that begins after that goes to its return without
\* a load; a returning get_sklearn_model hands back the value then in the
\* slot; a failed save leaves the slot unchanged.
C12_LoadOnceReuseMany ==
    [][ /\ Populated => Populated'
        /\ \A t \in Threads :
              /\ (Populated /\ GetBegins(t)) => tpc'[t] = "get_return"
              /\ GetEnds(t) => (Populated /\ tret'[t] = model_cache["sklearn"])
              /\ SaveFails(t) => model_cache' = model_cache
      ]_vars

\* a get returned the saved model although the file on disk has since
\* become unreadable: the slot was reused, nothing was loaded
C12_Witness ==
    /\ Populated
    /\ model_cache["sklearn"] = "m2"
    /\ model_file = "corrupt"
    /\ \E t \in Threads : tpc[t] = "idle" /\ tret[t] = "m2"

\* C13: the heavy tier's confidence equals the light tier's for the same
\* text, so the gain condition never holds: every answer is the light
\* result, model_used "agent_light" and escalated false, also when the
\* escalation was attempted.
C13_LightAlwaysFinal ==
    /\ attempted =>
        /\ heavy_res.confidence = light_res.confidence
        /\ heavy_res.predicted_category = light_res.predicted_category
        /\ ~HeavyWins(light_res, heavy_res)
    /\ Finished =>
        /\ Answer.model_used = "agent_light"
        /\ ~Answer.escalated
        /\ Answer.confidence = light_res.confidence
        /\ Answer.co2_mg = light_res.co2_mg

\* priority "accuracy" on a confident text: the heavy tier ran and the
\* light result was still the answer
C13_Witness ==
    /\ pc = "done"
    /\ SentPriority = "accuracy"
    /\ light_res.confidence >= Percent(85)
    /\ evaluated = <<"light", "heavy">>
    /\ result.escalation_attempted
    /\ result.model_used = "agent_light"
    /\ ~result.escalated

====
